---- MODULE Spec2Model ----
(***************************************************************************)
(* DarkBotManager: the batch maintenance runner of DarkBotManager.py.      *)
(*                                                                         *)
(* The state is the file system the tool works on, the configuration, the  *)
(* list box of detected bot folders, the background worker threads started *)
(* by the buttons, and the three widgets the workers write to: the log     *)
(* text, the progress bar and the message boxes.                           *)
(*                                                                         *)
(* File names are sequences of characters, so that the glob patterns and   *)
(* the name comparisons of the code are computed on the names.  Patterns   *)
(* are matched case-sensitively, as pathlib does on POSIX; the universe    *)
(* holds no two names that differ in case only.                            *)
(***************************************************************************)
EXTENDS Integers, Sequences, FiniteSets, TLC

\* ------------------------------------------------------------------------
\* Bounds
\* ------------------------------------------------------------------------
\* Worker threads the user starts in one run of the model.
MaxBatches == 2
\* Changes other programs make to the bot folders while the tool runs.
MaxEnv == 1

\* ------------------------------------------------------------------------
\* File names
\* ------------------------------------------------------------------------
nRoot == <<"r">>
nBotA == <<"a">>
nBotB == <<"B">>
nNote == <<"c">>
nLogs == <<"l", "o", "g", "s">>
nPlugins == <<"p", "l", "u", "g", "i", "n", "s">>
nOld == <<"o", "l", "d">>
nUpdates == <<"u", "p", "d", "a", "t", "e", "s">>
nDarkBot == <<"D", "a", "r", "k", "B", "o", "t", ".", "j", "a", "r">>
nNotDarkBot == <<"n", "o", "t", "d", "a", "r", "k", "b", "o", "t", ".", "j", "a", "r">>
nJars == <<"j">>
nSrc == <<"s">>
nGone == <<"g">>
nSub == <<"d">>
nXLog == <<"x", ".", "l", "o", "g">>
nYLog == <<"y", ".", "l", "o", "g">>
nDirLog == <<"e", ".", "l", "o", "g">>
nBak == <<"x", ".", "l", "o", "g", ".", "b", "a", "k">>
nTxt == <<"k", ".", "t", "x", "t">>
nPLog == <<"p", ".", "l", "o", "g">>
nOJar == <<"o", ".", "j", "a", "r">>
nIJar == <<"i", ".", "j", "a", "r">>
nUJar == <<"u", ".", "j", "a", "r">>
nAJar == <<"a", ".", "j", "a", "r">>
nBJar == <<"b", ".", "j", "a", "r">>
nQJar == <<"q", ".", "j", "a", "r">>

\* The suffixes of the patterns "*.log" and "*.jar".
extLog == <<".", "l", "o", "g">>
extJar == <<".", "j", "a", "r">>

UpperChars ==
    <<"A", "B", "C", "D", "E", "F", "G", "H", "I", "J", "K", "L", "M",
      "N", "O", "P", "Q", "R", "S", "T", "U", "V", "W", "X", "Y", "Z">>
LowerChars ==
    <<"a", "b", "c", "d", "e", "f", "g", "h", "i", "j", "k", "l", "m",
      "n", "o", "p", "q", "r", "s", "t", "u", "v", "w", "x", "y", "z">>

\* ------------------------------------------------------------------------
\* The file system: a function from the existing paths to their nodes
\* ------------------------------------------------------------------------
File(data) == [kind |-> "file", locked |-> FALSE, data |-> data]
LockedFile(data) == [kind |-> "file", locked |-> TRUE, data |-> data]
Dir == [kind |-> "dir", locked |-> FALSE, data |-> ""]

Parent(p) == SubSeq(p, 1, Len(p) - 1)
\* Path.name: the last component, empty for Path("").
Name(p) == IF p = <<>> THEN <<>> ELSE p[Len(p)]
IsPrefix(p, q) == Len(p) <= Len(q) /\ SubSeq(q, 1, Len(p)) = p

\* Path("") is the current directory, which exists and holds none of the
\* files of the model.
Exists(f, p) == p = <<>> \/ p \in DOMAIN f
IsDir(f, p) == p = <<>> \/ (p \in DOMAIN f /\ f[p].kind = "dir")
IsFile(f, p) == p \in DOMAIN f /\ f[p].kind = "file"

Children(f, p) == {q \in DOMAIN f : Len(q) = Len(p) + 1 /\ Parent(q) = p}
Descendants(f, p) == {q \in DOMAIN f : Len(q) > Len(p) /\ IsPrefix(p, q)}

EndsWith(n, suffix) ==
    /\ Len(n) >= Len(suffix)
    /\ SubSeq(n, Len(n) - Len(suffix) + 1, Len(n)) = suffix

\* p.glob("*<suffix>"): the direct children whose name matches.
Glob(f, p, suffix) == {q \in Children(f, p) : EndsWith(Name(q), suffix)}
\* p.glob("**/*<suffix>"): the entries at any depth whose name matches.
GlobRecursive(f, p, suffix) == {q \in Descendants(f, p) : EndsWith(Name(q), suffix)}

Without(f, gone) == [q \in DOMAIN f \ gone |-> f[q]]

\* Path.unlink succeeds on a regular file no other program holds.
CanUnlink(f, p) == IsFile(f, p) /\ ~f[p].locked

\* shutil.rmtree succeeds when nothing under the directory is held.
CanRmtree(f, p) ==
    /\ IsDir(f, p)
    /\ p \in DOMAIN f
    /\ \A q \in Descendants(f, p) : ~f[q].locked
Rmtree(f, p) == Without(f, {p} \cup Descendants(f, p))

\* Path.mkdir(parents=True, exist_ok=True): the missing ancestors are
\* created; a regular file on the way makes it fail having created nothing.
Ancestors(p) == {SubSeq(p, 1, k) : k \in 1..Len(p)}
CanMkdir(f, p) == \A a \in Ancestors(p) : a \in DOMAIN f => f[a].kind = "dir"
Mkdir(f, p) == [a \in Ancestors(p) \ DOMAIN f |-> Dir] @@ f

\* shutil.copy2(src, dst): a destination that is a directory receives the
\* file under the source's name.
CopyTarget(f, src, dst) == IF IsDir(f, dst) THEN dst \o <<Name(src)>> ELSE dst
CanCopy(f, src, dst) ==
    LET t == CopyTarget(f, src, dst) IN
    /\ IsFile(f, src)
    /\ t # src
    /\ IsDir(f, Parent(t))
    /\ Parent(t) # <<>>
    /\ t \in DOMAIN f => (f[t].kind = "file" /\ ~f[t].locked)
Copy2(f, src, dst) ==
    LET t == CopyTarget(f, src, dst) IN
    (t :> File(f[src].data)) @@ f

\* A set as a sequence, in the order a directory scan happens to give.
RECURSIVE SetToSeq(_)
SetToSeq(S) ==
    IF S = {} THEN <<>>
    ELSE LET x == CHOOSE y \in S : TRUE IN <<x>> \o SetToSeq(S \ {x})

\* ------------------------------------------------------------------------
\* The log text: the lines each batch has written, each with the thread
\* that executed the insert into the widget
\* ------------------------------------------------------------------------
\* self._log(text, tag), reached through log_info, log_success, log_warn
\* and log_error: the insert runs in the thread of the caller (c.by).
LogLine(c, tag, msg, idx, n, path) ==
    [c EXCEPT !.log = Append(@, [by |-> c.by, tag |-> tag, msg |-> msg,
                                 idx |-> idx, n |-> n, path |-> path])]

RECURSIVE LogWarns(_, _, _)
LogWarns(c, msg, paths) ==
    IF paths = <<>> THEN c
    ELSE LogWarns(LogLine(c, "warn", msg, 0, 0, Head(paths)), msg, Tail(paths))

Attempt(c, step) == [c EXCEPT !.steps = Append(@, step)]

\* ------------------------------------------------------------------------
\* process_single_bot, step by step.  c is the state the procedure works
\* on: the file system, the log lines of the batch, the steps attempted on
\* the current folder and the executing thread.
\* ------------------------------------------------------------------------
\* Step 1: the folder must exist and be a directory, else FileNotFoundError.
FolderValid(f, bot) == Exists(f, bot) /\ IsDir(f, bot)

\* Step 2 with the pattern applied to the whole bot folder.
PurgeLogsEverywhere(c0, bot) ==
    LET c == Attempt(c0, "2")
        logs_dir == bot \o <<nLogs>>
        matched == GlobRecursive(c.fs, bot, extLog)
        removed == {p \in matched : CanUnlink(c.fs, p)}
    IN  IF Exists(c.fs, logs_dir) /\ IsDir(c.fs, logs_dir)
        THEN LogLine(
                 LogWarns([c EXCEPT !.fs = Without(@, removed)],
                          "did_not_remove_log", SetToSeq(matched \ removed)),
                 "info", "removed_logs", 0, Cardinality(removed), logs_dir)
        ELSE LogLine(c, "warn", "no_logs_folder", 0, 0, bot)

\* Step 2 with the try around the whole loop: a file that cannot be
\* removed ends the removals.
PurgeLogsStopsAtFailure(c0, bot) ==
    LET c == Attempt(c0, "2")
        logs_dir == bot \o <<nLogs>>
        matched == GlobRecursive(c.fs, logs_dir, extLog)
        removed == IF \A p \in matched : CanUnlink(c.fs, p) THEN matched ELSE {}
    IN  IF Exists(c.fs, logs_dir) /\ IsDir(c.fs, logs_dir)
        THEN LogLine(
                 LogWarns([c EXCEPT !.fs = Without(@, removed)],
                          "did_not_remove_log", SetToSeq(matched \ removed)),
                 "info", "removed_logs", 0, Cardinality(removed), logs_dir)
        ELSE LogLine(c, "warn", "no_logs_folder", 0, 0, bot)

\* Step 2: unlink every **/*.log under <bot>/logs.
PurgeLogs(c0, bot) ==
    LET c == Attempt(c0, "2")
        logs_dir == bot \o <<nLogs>>
        matched == GlobRecursive(c.fs, logs_dir, extLog)
        removed == {p \in matched : CanUnlink(c.fs, p)}
    IN  IF Exists(c.fs, logs_dir) /\ IsDir(c.fs, logs_dir)
        THEN LogLine(
                 LogWarns([c EXCEPT !.fs = Without(@, removed)],
                          "did_not_remove_log", SetToSeq(matched \ removed)),
                 "info", "removed_logs", 0, Cardinality(removed), logs_dir)
        ELSE LogLine(c, "warn", "no_logs_folder", 0, 0, bot)

\* Step 3: unlink every *.jar directly under <bot>/plugins/old.
PurgeOld(c0, bot) ==
    LET c == Attempt(c0, "3")
        plugins_old == bot \o <<nPlugins, nOld>>
        matched == Glob(c.fs, plugins_old, extJar)
        removed == {p \in matched : CanUnlink(c.fs, p)}
    IN  IF Exists(c.fs, plugins_old) /\ IsDir(c.fs, plugins_old)
        THEN LogLine(
                 LogWarns([c EXCEPT !.fs = Without(@, removed)],
                          "did_not_remove_old", SetToSeq(matched \ removed)),
                 "info", "removed_old", 0, Cardinality(removed), plugins_old)
        ELSE LogLine(c, "warn", "no_old_folder", 0, 0, bot)

\* Step 4 removing the updates folder itself with what it holds.
ResetUpdatesRemovesFolder(c0, bot) ==
    LET c == Attempt(c0, "4")
        plugins_updates == bot \o <<nPlugins, nUpdates>>
    IN  IF Exists(c.fs, plugins_updates) /\ IsDir(c.fs, plugins_updates)
        THEN LogLine([c EXCEPT !.fs = Rmtree(@, plugins_updates)],
                     "info", "removed_updates", 0, 1, plugins_updates)
        ELSE IF CanMkdir(c.fs, plugins_updates)
             THEN LogLine([c EXCEPT !.fs = Mkdir(@, plugins_updates)],
                          "info", "created_updates", 0, 0, plugins_updates)
             ELSE LogLine(c, "warn", "failed_to_create_updates", 0, 0, plugins_updates)

\* Step 4: empty <bot>/plugins/updates, or create it.
ResetUpdates(c0, bot) ==
    LET c == Attempt(c0, "4")
        plugins_updates == bot \o <<nPlugins, nUpdates>>
        kids == Children(c.fs, plugins_updates)
        files == {p \in kids : IsFile(c.fs, p) /\ CanUnlink(c.fs, p)}
        dirs == {p \in kids : ~IsFile(c.fs, p) /\ IsDir(c.fs, p) /\ CanRmtree(c.fs, p)}
        \* (an rmtree that fails leaves the directory: those of the model
        \* hold one entry at most, so there is no partial removal)
        gone == files \cup dirs \cup UNION {Descendants(c.fs, p) : p \in dirs}
    IN  IF Exists(c.fs, plugins_updates) /\ IsDir(c.fs, plugins_updates)
        THEN LogLine(
                 LogWarns([c EXCEPT !.fs = Without(@, gone)],
                          "did_not_remove_update", SetToSeq(kids \ (files \cup dirs))),
                 "info", "removed_updates", 0, Cardinality(files \cup dirs),
                 plugins_updates)
        ELSE IF CanMkdir(c.fs, plugins_updates)
             THEN LogLine([c EXCEPT !.fs = Mkdir(@, plugins_updates)],
                          "info", "created_updates", 0, 0, plugins_updates)
             ELSE LogLine(c, "warn", "failed_to_create_updates", 0, 0, plugins_updates)

\* Step 5a without the comparison of the file name.
CopyDarkBotAnyName(c0, bot, darkjar_src) ==
    LET c == Attempt(c0, "5a")
        dest == bot \o <<nDarkBot>>
    IN  IF Exists(c.fs, darkjar_src) /\ IsFile(c.fs, darkjar_src)
        THEN IF CanCopy(c.fs, darkjar_src, dest)
             THEN LogLine([c EXCEPT !.fs = Copy2(@, darkjar_src, dest)],
                          "info", "copied_darkbot", 0, 0, dest)
             ELSE LogLine(c, "warn", "failed_to_copy_darkbot", 0, 0, bot)
        ELSE LogLine(c, "warn", "invalid_darkbot_jar", 0, 0, darkjar_src)

\* Step 5a: copy the configured jar to <bot>/DarkBot.jar.
CopyDarkBot(c0, bot, darkjar_src) ==
    LET c == Attempt(c0, "5a")
        dest == bot \o <<nDarkBot>>
    IN  IF /\ Exists(c.fs, darkjar_src)
           /\ IsFile(c.fs, darkjar_src)
           /\ Name(darkjar_src) = nDarkBot
        THEN IF CanCopy(c.fs, darkjar_src, dest)
             THEN LogLine([c EXCEPT !.fs = Copy2(@, darkjar_src, dest)],
                          "info", "copied_darkbot", 0, 0, dest)
             ELSE LogLine(c, "warn", "failed_to_copy_darkbot", 0, 0, bot)
        ELSE LogLine(c, "warn", "invalid_darkbot_jar", 0, 0, darkjar_src)

\* Step 5b moving the source jars instead of copying them.
RECURSIVE CopyJarsMoving(_, _, _)
CopyJarsMoving(f, jars, plugins_updates) ==
    IF jars = <<>> THEN f
    ELSE CopyJarsMoving(
             IF CanCopy(f, Head(jars), plugins_updates \o <<Name(Head(jars))>>)
             THEN Without(Copy2(f, Head(jars), plugins_updates \o <<Name(Head(jars))>>),
                          {Head(jars)})
             ELSE f,
             Tail(jars), plugins_updates)

\* The copies of step 5b, one source jar after the other.
RECURSIVE CopyJars(_, _, _)
CopyJars(f, jars, plugins_updates) ==
    IF jars = <<>> THEN f
    ELSE CopyJars(IF CanCopy(f, Head(jars), plugins_updates \o <<Name(Head(jars))>>)
                  THEN Copy2(f, Head(jars), plugins_updates \o <<Name(Head(jars))>>)
                  ELSE f,
                  Tail(jars), plugins_updates)

\* Step 5b without the exception for DarkBot.jar.
CopyPluginsWithDarkBot(c0, bot, plugin_src_folder) ==
    LET c == Attempt(c0, "5b")
        plugins_updates == bot \o <<nPlugins, nUpdates>>
        jars == Glob(c.fs, plugin_src_folder, extJar)
        copied == {p \in jars : CanCopy(c.fs, p, plugins_updates \o <<Name(p)>>)}
    IN  IF Exists(c.fs, plugin_src_folder) /\ IsDir(c.fs, plugin_src_folder)
        THEN LogLine(
                 LogWarns([c EXCEPT !.fs = CopyJars(@, SetToSeq(jars), plugins_updates)],
                          "failed_to_copy_plugin", SetToSeq(jars \ copied)),
                 "info", "copied_plugins", 0, Cardinality(copied), plugins_updates)
        ELSE LogLine(c, "warn", "invalid_plugin_folder", 0, 0, plugin_src_folder)

\* Step 5b: copy every *.jar of the plugin source folder, DarkBot.jar
\* excepted, into <bot>/plugins/updates.
CopyPlugins(c0, bot, plugin_src_folder) ==
    LET c == Attempt(c0, "5b")
        plugins_updates == bot \o <<nPlugins, nUpdates>>
        matched == Glob(c.fs, plugin_src_folder, extJar)
        skipped == {p \in matched : Name(p) = nDarkBot}
        jars == matched \ skipped
        copied == {p \in jars : CanCopy(c.fs, p, plugins_updates \o <<Name(p)>>)}
    IN  IF Exists(c.fs, plugin_src_folder) /\ IsDir(c.fs, plugin_src_folder)
        THEN LogLine(
                 LogWarns(
                     LogWarns([c EXCEPT !.fs = CopyJars(@, SetToSeq(jars), plugins_updates)],
                              "skipped_darkbot_plugin", SetToSeq(skipped)),
                     "failed_to_copy_plugin", SetToSeq(jars \ copied)),
                 "info", "copied_plugins", 0, Cardinality(copied), plugins_updates)
        ELSE LogLine(c, "warn", "invalid_plugin_folder", 0, 0, plugin_src_folder)

\* Steps 2-4 returning at the first step that finds its folder missing.
CleanStepsStopAtWarning(c, bot) ==
    IF ~IsDir(c.fs, bot \o <<nLogs>>) THEN PurgeLogs(c, bot)
    ELSE IF ~IsDir(c.fs, bot \o <<nPlugins, nOld>>) THEN PurgeOld(PurgeLogs(c, bot), bot)
         ELSE ResetUpdates(PurgeOld(PurgeLogs(c, bot), bot), bot)

\* process_single_bot after step 1, in the two parts the worker actions
\* take: the purges and the reset (steps 2-4), then the installs (step 5).
CleanSteps(c, bot) == ResetUpdates(PurgeOld(PurgeLogs(c, bot), bot), bot)
InstallSteps(c, bot, darkjar_src, plugin_src_folder) ==
    CopyPlugins(CopyDarkBot(c, bot, darkjar_src), bot, plugin_src_folder)

\* clear_single_bot going on to step 4 as process_single_bot does.
ClearStepsAndReset(c, bot) == ResetUpdates(PurgeOld(PurgeLogs(c, bot), bot), bot)

\* clear_single_bot after its existence check: the two purges.
ClearSteps(c, bot) == PurgeOld(PurgeLogs(c, bot), bot)

\* ------------------------------------------------------------------------
\* refresh_bot_list: the immediate subdirectories, by lower-cased name
\* ------------------------------------------------------------------------
\* ord(ch) for the characters of the names.
CharOrd(ch) ==
    IF \E i \in 1..26 : UpperChars[i] = ch
    THEN 64 + (CHOOSE i \in 1..26 : UpperChars[i] = ch)
    ELSE IF \E i \in 1..26 : LowerChars[i] = ch
         THEN 96 + (CHOOSE i \in 1..26 : LowerChars[i] = ch)
         ELSE 46
\* str.lower()
LowerChar(ch) ==
    IF \E i \in 1..26 : UpperChars[i] = ch
    THEN LowerChars[CHOOSE i \in 1..26 : UpperChars[i] = ch]
    ELSE ch
LowerName(n) == [i \in 1..Len(n) |-> LowerChar(n[i])]

\* a < b for strings: the first differing character decides.
RECURSIVE StrLess(_, _)
StrLess(a, b) ==
    IF a = <<>> THEN b # <<>>
    ELSE IF b = <<>> THEN FALSE
         ELSE IF Head(a) # Head(b) THEN CharOrd(Head(a)) < CharOrd(Head(b))
              ELSE StrLess(Tail(a), Tail(b))

\* The key without lower(): the order of the code points.
SortKeyCaseSensitive(p) == Name(p)

SortKey(p) == LowerName(Name(p))

\* sorted(paths, key=lambda p: p.name.lower())
RECURSIVE SortedByKey(_)
SortedByKey(S) ==
    IF S = {} THEN <<>>
    ELSE LET first == CHOOSE p \in S :
                          \A q \in S \ {p} : ~StrLess(SortKey(q), SortKey(p))
         IN  <<first>> \o SortedByKey(S \ {first})

is_bot_folder(f, p) ==
    IF ~IsDir(f, p) THEN FALSE
    ELSE IF Exists(f, p \o <<nLogs>>) \/ Exists(f, p \o <<nPlugins>>) THEN TRUE
         ELSE TRUE

\* The list box after refresh_bot_list, and whether it warned.
RootUsable(f, root) == root # <<>> /\ Exists(f, root)
ListedBots(f, root) ==
    IF ~RootUsable(f, root) THEN <<>>
    ELSE SelectSeq(SortedByKey({p \in Children(f, root) : IsDir(f, p)}),
                   LAMBDA p : is_bot_folder(f, p))

\* The line refresh_bot_list logs, written by the interface thread; with a
\* root that exists and is no directory, iterdir() raises and no line is
\* logged: the exception is what the call ends with.
RefreshLine(f, root) ==
    IF ~RootUsable(f, root)
    THEN [by |-> "interface", tag |-> "warn", msg |-> "no_bot_root",
          idx |-> 0, n |-> 0, path |-> root]
    ELSE IF ~IsDir(f, root)
         THEN [by |-> "interface", tag |-> "raised", msg |-> "NotADirectoryError",
               idx |-> 0, n |-> 0, path |-> root]
         ELSE [by |-> "interface", tag |-> "info", msg |-> "loaded_bots",
               idx |-> 0, n |-> Len(ListedBots(f, root)), path |-> root]

\* ------------------------------------------------------------------------
\* The initial file system
\* ------------------------------------------------------------------------
BotsRoot == <<nRoot>>
BotA == <<nRoot, nBotA>>
BotB == <<nRoot, nBotB>>
JarFile == <<nJars, nDarkBot>>
WrongJarFile == <<nJars, nNotDarkBot>>
PluginSrc == <<nSrc>>
MissingSrc == <<nGone>>

\* A bot folder with logs, old plugins, staged updates and a jar; held
\* names the files another program keeps open.
FullBot(b, held) ==
    LET F(p, data) == IF p \in held THEN LockedFile(data) ELSE File(data) IN
    (b :> Dir)
    @@ (b \o <<nDarkBot>> :> F(b \o <<nDarkBot>>, "old"))
    @@ (b \o <<nLogs>> :> Dir)
    @@ (b \o <<nLogs, nXLog>> :> F(b \o <<nLogs, nXLog>>, "log"))
    @@ (b \o <<nLogs, nTxt>> :> File("txt"))
    @@ (b \o <<nLogs, nBak>> :> File("bak"))
    @@ (b \o <<nLogs, nDirLog>> :> Dir)
    @@ (b \o <<nLogs, nSub>> :> Dir)
    @@ (b \o <<nLogs, nSub, nYLog>> :> File("log"))
    @@ (b \o <<nPlugins>> :> Dir)
    @@ (b \o <<nPlugins, nPLog>> :> File("log"))
    @@ (b \o <<nPlugins, nOld>> :> Dir)
    @@ (b \o <<nPlugins, nOld, nOJar>> :> F(b \o <<nPlugins, nOld, nOJar>>, "jar"))
    @@ (b \o <<nPlugins, nOld, nTxt>> :> File("txt"))
    @@ (b \o <<nPlugins, nOld, nSub>> :> Dir)
    @@ (b \o <<nPlugins, nOld, nSub, nIJar>> :> File("jar"))
    @@ (b \o <<nPlugins, nUpdates>> :> Dir)
    @@ (b \o <<nPlugins, nUpdates, nUJar>> :> F(b \o <<nPlugins, nUpdates, nUJar>>, "jar"))
    @@ (b \o <<nPlugins, nUpdates, nSub>> :> Dir)
    @@ (b \o <<nPlugins, nUpdates, nSub, nTxt>>
            :> F(b \o <<nPlugins, nUpdates, nSub, nTxt>>, "txt"))

\* A bot folder with one log file and one staged update.
SmallBot(b) ==
    (b :> Dir)
    @@ (b \o <<nLogs>> :> Dir)
    @@ (b \o <<nLogs, nXLog>> :> File("log"))
    @@ (b \o <<nPlugins>> :> Dir)
    @@ (b \o <<nPlugins, nUpdates>> :> Dir)
    @@ (b \o <<nPlugins, nUpdates, nUJar>> :> File("jar"))

BareBot(b) == (b :> Dir)
PluginsFileBot(b) == (b :> Dir) @@ (b \o <<nPlugins>> :> File("txt"))
UpdatesFileBot(b) ==
    (b :> Dir) @@ (b \o <<nPlugins>> :> Dir) @@ (b \o <<nPlugins, nUpdates>> :> File("txt"))

\* What is outside the bot folders: the root with a stray file, the jar
\* folder and the plugin source folder.
Surroundings ==
    (BotsRoot :> Dir)
    @@ (<<nRoot, nNote>> :> File("txt"))
    @@ (<<nJars>> :> Dir)
    @@ (JarFile :> File("new"))
    @@ (WrongJarFile :> File("wrong"))
    @@ (PluginSrc :> Dir)
    @@ (PluginSrc \o <<nAJar>> :> File("plugin a"))
    @@ (PluginSrc \o <<nBJar>> :> File("plugin b"))
    @@ (PluginSrc \o <<nDarkBot>> :> File("stray"))
    @@ (PluginSrc \o <<nTxt>> :> File("txt"))
    @@ (PluginSrc \o <<nQJar>> :> Dir)
    @@ (PluginSrc \o <<nSub>> :> Dir)
    @@ (PluginSrc \o <<nSub, nIJar>> :> File("nested"))

\* The configurations the settings file may hold (DEFAULT_CONFIG leaves
\* the paths empty).
GoodConfig ==
    [bots_root |-> BotsRoot, darkbot_jar_path |-> JarFile,
     plugin_updates_folder |-> PluginSrc]
WrongJarConfig ==
    [bots_root |-> BotsRoot, darkbot_jar_path |-> WrongJarFile,
     plugin_updates_folder |-> PluginSrc]
UnsetConfig ==
    [bots_root |-> BotsRoot, darkbot_jar_path |-> <<>>,
     plugin_updates_folder |-> MissingSrc]

\* The situations the tool is started in: the two bot folders and the
\* configuration.
Scenarios ==
    { [a |-> FullBot(BotA, {}), b |-> UpdatesFileBot(BotB), cfg |-> GoodConfig],
      [a |-> FullBot(BotA, {BotA \o <<nLogs, nXLog>>,
                            BotA \o <<nPlugins, nOld, nOJar>>,
                            BotA \o <<nPlugins, nUpdates, nUJar>>}),
       b |-> BareBot(BotB), cfg |-> WrongJarConfig],
      [a |-> FullBot(BotA, {BotA \o <<nDarkBot>>,
                            BotA \o <<nPlugins, nUpdates, nSub, nTxt>>}),
       b |-> SmallBot(BotB), cfg |-> GoodConfig],
      [a |-> PluginsFileBot(BotA), b |-> SmallBot(BotB), cfg |-> UnsetConfig] }

\* ------------------------------------------------------------------------
\* State
\* ------------------------------------------------------------------------
VARIABLES
    fs,             \* the file system
    cfg,            \* self.cfg
    bots_root_var,  \* self.bots_root_var
    listbox,        \* self.listbox: the paths listed, in order
    workers,        \* the threads started by the buttons, by batch number
    log,            \* self.log: the lines each batch has written
    notice,         \* the last log line written outside the batches (by refresh_bot_list
                    \* or the settings dialog), or the exception the handler ended with
    progress,       \* self.progress: value, maximum and the writing thread
    dialogs,        \* the message boxes shown
    envLeft         \* changes by other programs still to come

vars == <<fs, cfg, bots_root_var, listbox, workers, log, notice, progress,
          dialogs, envLeft>>

Batches == 1..MaxBatches

IdleWorker ==
    [pc |-> "idle", kind |-> "none", bot_paths |-> <<>>, idx |-> 0, errors |-> 0,
     darkjar |-> <<>>, plugin_src |-> <<>>, steps |-> <<>>]

\* DarkBotManagerGUI.__init__: the configuration is loaded, the widgets are
\* built and the list is filled by refresh_bot_list.
Init ==
    /\ \E s \in Scenarios :
           /\ fs = s.a @@ s.b @@ Surroundings
           /\ cfg = s.cfg
    /\ bots_root_var = cfg.bots_root
    /\ listbox = ListedBots(fs, bots_root_var)
    /\ workers = [b \in Batches |-> IdleWorker]
    /\ log = [b \in Batches |-> <<>>]
    /\ notice = RefreshLine(fs, bots_root_var)
    /\ progress = [value |-> 0, maximum |-> 100, by |-> "interface"]
    /\ dialogs = {}
    /\ envLeft = MaxEnv

\* ------------------------------------------------------------------------
\* The buttons (interface thread)
\* ------------------------------------------------------------------------
Started(w) == workers[w].pc # "idle"
\* The batch number the next thread gets.
NextBatch == CHOOSE w \in Batches : ~Started(w) /\ \A v \in Batches : v < w => Started(v)
CanStart == \E w \in Batches : ~Started(w)

\* threading.Thread(target=..., args=(paths,), daemon=True).start()
StartThread(kind, paths) ==
    workers' = [workers EXCEPT ![NextBatch] =
                   [IdleWorker EXCEPT !.pc = "start", !.kind = kind, !.bot_paths = paths]]

\* messagebox.showinfo called by a thread, for a batch (0: for none) whose
\* worker stands at pc.
Shown(title, by, batch, pc) == [title |-> title, by |-> by, batch |-> batch, pc |-> pc]

\* The items at the selected indices, in list order.
Selected(sel) == SelectSeq([i \in 1..Len(listbox) |-> IF i \in sel THEN <<listbox[i]>> ELSE <<>>],
                           LAMBDA x : x # <<>>)
Items(sel) == [i \in 1..Len(Selected(sel)) |-> Selected(sel)[i][1]]

run_on_selected(sel) ==
    /\ IF Items(sel) = <<>>
       THEN /\ dialogs' = dialogs \cup {Shown("selection_none", "interface", 0, "none")}
            /\ UNCHANGED workers
       ELSE /\ CanStart
            /\ StartThread("run", Items(sel))
            /\ UNCHANGED dialogs
    /\ UNCHANGED <<fs, cfg, bots_root_var, listbox, log, notice, progress, envLeft>>

run_on_all ==
    /\ IF listbox = <<>>
       THEN /\ dialogs' = dialogs \cup {Shown("selection_empty", "interface", 0, "none")}
            /\ UNCHANGED workers
       ELSE /\ CanStart
            /\ StartThread("run", listbox)
            /\ dialogs' = dialogs \cup {Shown("done", "interface", NextBatch, "start")}
    /\ UNCHANGED <<fs, cfg, bots_root_var, listbox, log, notice, progress, envLeft>>

clear_old_logs ==
    /\ IF listbox = <<>>
       THEN /\ dialogs' = dialogs \cup {Shown("selection_empty", "interface", 0, "none")}
            /\ UNCHANGED workers
       ELSE /\ CanStart
            /\ StartThread("clear", listbox)
            /\ UNCHANGED dialogs
    /\ UNCHANGED <<fs, cfg, bots_root_var, listbox, log, notice, progress, envLeft>>

refresh_bot_list ==
    /\ listbox' = ListedBots(fs, bots_root_var)
    /\ notice' = RefreshLine(fs, bots_root_var)
    /\ UNCHANGED <<fs, cfg, bots_root_var, workers, log, progress, dialogs, envLeft>>

\* ------------------------------------------------------------------------
\* The worker threads
\* ------------------------------------------------------------------------
\* What a worker hands to the per-folder procedure.
Ctx(w) == [fs |-> fs, log |-> log[w], steps |-> <<>>, by |-> "background"]

\* The loop ending one folder early.
LoopNextSkipsLast(wk) ==
    IF wk.idx + 1 < Len(wk.bot_paths)
    THEN [wk EXCEPT !.pc = "folder", !.idx = @ + 1]
    ELSE [wk EXCEPT !.pc = "summary"]

\* The end of one pass of the for loop: the next folder, or the summary.
LoopNext(wk) ==
    IF wk.idx < Len(wk.bot_paths)
    THEN [wk EXCEPT !.pc = "folder", !.idx = @ + 1]
    ELSE [wk EXCEPT !.pc = "summary"]

\* finally: self.progress["value"] = idx
ProgressAt(idx) == [progress EXCEPT !.value = idx, !.by = "background"]

\* The except branch leaving the loop: the failure ends the batch.
FolderFailedEndsBatch(wk, c, msg) ==
    [worker |-> [wk EXCEPT !.pc = "summary", !.errors = @ + 1, !.steps = c.steps],
     log |-> LogLine(LogLine(c, "error", msg, wk.idx, 0, wk.bot_paths[wk.idx]),
                     "info", "traceback", wk.idx, 0, wk.bot_paths[wk.idx]).log]

\* The except branch logging the failure without counting it.
FolderFailedUncounted(wk, c, msg) ==
    [worker |-> LoopNext([wk EXCEPT !.steps = c.steps]),
     log |-> LogLine(LogLine(c, "error", msg, wk.idx, 0, wk.bot_paths[wk.idx]),
                     "info", "traceback", wk.idx, 0, wk.bot_paths[wk.idx]).log]

\* The except branch of the loop: count the error, log it and its traceback.
FolderFailed(wk, c, msg) ==
    [worker |-> LoopNext([wk EXCEPT !.errors = @ + 1, !.steps = c.steps]),
     log |-> LogLine(LogLine(c, "error", msg, wk.idx, 0, wk.bot_paths[wk.idx]),
                     "info", "traceback", wk.idx, 0, wk.bot_paths[wk.idx]).log]

\* _run_worker and clear_old_logs_worker up to the loop: the progress bar
\* is reset, the start is logged and _run_worker reads the two source paths.
WorkerStart(w) ==
    LET wk == workers[w] IN
    /\ wk.pc = "start"
    /\ progress' = [value |-> 0, maximum |-> Len(wk.bot_paths), by |-> "background"]
    /\ log' = [log EXCEPT ![w] =
                  LogLine(Ctx(w), "info", "operation_start", 0, Len(wk.bot_paths), <<>>).log]
    /\ workers' = [workers EXCEPT ![w] =
                      [wk EXCEPT !.pc = "folder", !.idx = 1, !.errors = 0,
                                 !.darkjar = IF wk.kind = "run"
                                             THEN cfg.darkbot_jar_path ELSE <<>>,
                                 !.plugin_src = IF wk.kind = "run"
                                                THEN cfg.plugin_updates_folder ELSE <<>>]]
    /\ UNCHANGED <<fs, cfg, bots_root_var, listbox, notice, dialogs, envLeft>>

\* One pass of the loop of _run_worker, first part: the folder is announced
\* and process_single_bot runs its check and steps 2-4.  A folder that fails
\* the check ends the pass in the except branch.
WorkerClean(w) ==
    LET wk == workers[w]
        bp == wk.bot_paths[wk.idx]
        c0 == LogLine(Ctx(w), "info", "processing", wk.idx, 0, bp)
        c1 == Attempt(c0, "1")
    IN  /\ wk.pc = "folder"
        /\ wk.kind = "run"
        /\ IF ~FolderValid(fs, bp)
           THEN /\ workers' = [workers EXCEPT ![w] = FolderFailed(wk, c1, "error_processing").worker]
                /\ log' = [log EXCEPT ![w] = FolderFailed(wk, c1, "error_processing").log]
                /\ progress' = ProgressAt(wk.idx)
                /\ UNCHANGED fs
           ELSE /\ \E c \in {CleanSteps(c1, bp)} :
                       /\ fs' = c.fs
                       /\ log' = [log EXCEPT ![w] = c.log]
                       /\ workers' = [workers EXCEPT ![w] =
                                         [wk EXCEPT !.pc = "install", !.steps = c.steps]]
                /\ UNCHANGED progress
        /\ UNCHANGED <<cfg, bots_root_var, listbox, notice, dialogs, envLeft>>

\* The second part reading the two source paths from the configuration for
\* every folder.
WorkerInstallReadingConfig(w) ==
    LET wk == workers[w]
        bp == wk.bot_paths[wk.idx]
        c0 == [Ctx(w) EXCEPT !.steps = wk.steps]
    IN  /\ wk.pc = "install"
        /\ \E c1 \in {InstallSteps(c0, bp, cfg.darkbot_jar_path, cfg.plugin_updates_folder)} :
               /\ fs' = c1.fs
               /\ log' = [log EXCEPT ![w] =
                             LogLine(c1, "success", "completed", wk.idx, 0, bp).log]
               /\ workers' = [workers EXCEPT ![w] = LoopNext([wk EXCEPT !.steps = c1.steps])]
        /\ progress' = ProgressAt(wk.idx)
        /\ UNCHANGED <<cfg, bots_root_var, listbox, notice, dialogs, envLeft>>

\* Second part: process_single_bot runs steps 5a and 5b, the folder is
\* reported completed and the progress bar is set.
WorkerInstall(w) ==
    LET wk == workers[w]
        bp == wk.bot_paths[wk.idx]
        c0 == [Ctx(w) EXCEPT !.steps = wk.steps]
    IN  /\ wk.pc = "install"
        /\ \E c1 \in {InstallSteps(c0, bp, wk.darkjar, wk.plugin_src)} :
               /\ fs' = c1.fs
               /\ log' = [log EXCEPT ![w] =
                             LogLine(c1, "success", "completed", wk.idx, 0, bp).log]
               /\ workers' = [workers EXCEPT ![w] = LoopNext([wk EXCEPT !.steps = c1.steps])]
        /\ progress' = ProgressAt(wk.idx)
        /\ UNCHANGED <<cfg, bots_root_var, listbox, notice, dialogs, envLeft>>

\* One pass of the loop of clear_old_logs_worker: clear_single_bot.
WorkerClear(w) ==
    LET wk == workers[w]
        bp == wk.bot_paths[wk.idx]
        c0 == LogLine(Ctx(w), "info", "clearing", wk.idx, 0, bp)
        c1 == Attempt(c0, "1")
    IN  /\ wk.pc = "folder"
        /\ wk.kind = "clear"
        /\ IF ~FolderValid(fs, bp)
           THEN /\ workers' = [workers EXCEPT ![w] = FolderFailed(wk, c1, "error_clearing").worker]
                /\ log' = [log EXCEPT ![w] = FolderFailed(wk, c1, "error_clearing").log]
                /\ UNCHANGED fs
           ELSE \E c2 \in {ClearSteps(c1, bp)} :
                    /\ fs' = c2.fs
                    /\ log' = [log EXCEPT ![w] =
                                  LogLine(c2, "success", "cleared", wk.idx, 0, bp).log]
                    /\ workers' = [workers EXCEPT ![w] =
                                      LoopNext([wk EXCEPT !.steps = c2.steps])]
        /\ progress' = ProgressAt(wk.idx)
        /\ UNCHANGED <<cfg, bots_root_var, listbox, notice, dialogs, envLeft>>

\* After the loop: the summary line and the message box, both from the
\* worker thread.
WorkerSummary(w) ==
    LET wk == workers[w]
        total == Len(wk.bot_paths)
    IN  /\ wk.pc = "summary"
        /\ log' = [log EXCEPT ![w] =
                      IF wk.errors = 0
                      THEN LogLine(Ctx(w), "success", "summary_ok", 0, total, <<>>).log
                      ELSE LogLine(Ctx(w), "warn", "summary_errors", 0, wk.errors, <<>>).log]
        /\ dialogs' = dialogs \cup
               {Shown(IF wk.kind = "run" THEN "done" ELSE "clearing_completed",
                      "background", w, "summary")}
        /\ workers' = [workers EXCEPT ![w] = [wk EXCEPT !.pc = "done"]]
        /\ UNCHANGED <<fs, cfg, bots_root_var, listbox, notice, progress, envLeft>>

\* ------------------------------------------------------------------------
\* Other programs
\* ------------------------------------------------------------------------
\* The first listed bot folder is deleted from outside the tool, at any
\* moment.
FolderRemoved ==
    /\ envLeft > 0
    /\ BotA \in DOMAIN fs
    /\ envLeft' = envLeft - 1
    /\ fs' = Rmtree(fs, BotA)
    /\ UNCHANGED <<cfg, bots_root_var, listbox, workers, log, notice, progress, dialogs>>

Next ==
    \/ \E sel \in SUBSET (1..Len(listbox)) : run_on_selected(sel)
    \/ run_on_all
    \/ clear_old_logs
    \/ refresh_bot_list
    \/ \E w \in Batches : WorkerStart(w)
    \/ \E w \in Batches : WorkerClean(w)
    \/ \E w \in Batches : WorkerInstall(w)
    \/ \E w \in Batches : WorkerClear(w)
    \/ \E w \in Batches : WorkerSummary(w)
    \/ FolderRemoved

Spec == Init /\ [][Next]_vars

\* ------------------------------------------------------------------------
\* Reading the log and the steps of a worker
\* ------------------------------------------------------------------------
IsAnnouncement(e) == e.msg \in {"processing", "clearing"}
IsOutcome(e) == e.msg \in {"completed", "cleared", "error_processing", "error_clearing"}
Announcements(w) == SelectSeq(log[w], IsAnnouncement)
Outcomes(w) == SelectSeq(log[w], IsOutcome)
PathsOf(lines) == [i \in 1..Len(lines) |-> lines[i].path]
Total(w) == Len(workers[w].bot_paths)
Finished(w) == workers[w].pc \in {"summary", "done"}
\* The folder the worker is on (or was on last).
Current(w) == workers[w].bot_paths[workers[w].idx]
\* The lines a step adds to the log of batch w.
NewLines(w) == SubSeq(log'[w], Len(log[w]) + 1, Len(log'[w]))
Logged(lines, msg, path) == \E i \in 1..Len(lines) : lines[i].msg = msg /\ lines[i].path = path

\* The guards of the worker's actions: it has a step to take.
CanStep(w) ==
    \/ workers[w].pc \in {"start", "summary"}
    \/ /\ workers[w].pc = "folder"
       /\ workers[w].kind \in {"run", "clear"}
       /\ workers[w].idx \in 1..Total(w)
    \/ /\ workers[w].pc = "install"
       /\ workers[w].idx \in 1..Total(w)

\* The steps of a worker, as transitions: the pass that runs steps 1-4, the
\* pass that fails step 1, and the pass that runs step 5.
CleanStepBy(w) ==
    /\ workers[w].pc = "folder"
    /\ workers[w].kind = "run"
    /\ workers'[w].pc = "install"
FailedStepBy(w) ==
    /\ workers[w].pc = "folder"
    /\ workers'[w].errors = workers[w].errors + 1
InstallStepBy(w) ==
    /\ workers[w].pc = "install"
    /\ workers'[w].pc # "install"
Untouched(p) ==
    /\ p \in DOMAIN fs <=> p \in DOMAIN fs'
    /\ p \in DOMAIN fs => fs'[p] = fs[p]

\* ------------------------------------------------------------------------
\* C1
\* ------------------------------------------------------------------------
\* C1: a folder that fails never aborts the batch: a started worker that has
\* not finished has a next step to take, after a failed folder i < n
\* the loop is at a later folder, and a worker that has reached its summary
\* has an outcome line for every folder of its input.
C1_FailureNeverAbortsBatch ==
    \A w \in Batches :
        Started(w) =>
            /\ workers[w].pc # "done" => CanStep(w)
            /\ Finished(w) => Len(Outcomes(w)) = Total(w)
            /\ \A i \in 1..Len(Outcomes(w)) :
                   (Outcomes(w)[i].tag = "error" /\ i < Total(w))
                       => (workers[w].idx > i \/ Finished(w))
            /\ workers[w].pc = "done" =>
                   log[w][Len(log[w])].msg \in {"summary_ok", "summary_errors"}

\* A batch of two folders is done; the first failed and the second completed.
C1_Witness ==
    \E w \in Batches :
        /\ workers[w].pc = "done"
        /\ Total(w) = 2
        /\ Len(Outcomes(w)) = 2
        /\ Outcomes(w)[1].tag = "error"
        /\ Outcomes(w)[2].tag = "success"

\* ------------------------------------------------------------------------
\* C2
\* ------------------------------------------------------------------------
\* C2 as stated: when the batch is over, as many folders were processed as
\* there are input paths, and every input path appears in exactly one line
\* of the batch's log.
C2_EachPathOnOneLine ==
    \A w \in Batches :
        Finished(w) =>
            /\ Len(Outcomes(w)) = Total(w)
            /\ \A i \in 1..Total(w) :
                   Cardinality({k \in 1..Len(log[w]) :
                                    log[w][k].path = workers[w].bot_paths[i]}) = 1

\* C2, amended: every input path is announced by exactly one "Processing"
\* line and reported by exactly one "Completed" or "Error" line of the
\* batch, both in input order and numbered 1..n; when the batch is over
\* there are as many of each as input paths.
C2_OneAnnouncementAndOutcomePerPath ==
    \A w \in Batches :
        Started(w) =>
            /\ Len(Announcements(w)) <= Total(w)
            /\ PathsOf(Announcements(w))
                   = SubSeq(workers[w].bot_paths, 1, Len(Announcements(w)))
            /\ PathsOf(Outcomes(w)) = SubSeq(workers[w].bot_paths, 1, Len(Outcomes(w)))
            /\ \A i \in 1..Len(Announcements(w)) : Announcements(w)[i].idx = i
            /\ \A i \in 1..Len(Outcomes(w)) : Outcomes(w)[i].idx = i
            /\ Len(Outcomes(w)) <= Len(Announcements(w))
            /\ Len(Announcements(w)) <= Len(Outcomes(w)) + 1
            /\ Finished(w) =>
                   /\ Len(Announcements(w)) = Total(w)
                   /\ Len(Outcomes(w)) = Total(w)

\* A batch over both listed folders is over.
C2_Witness ==
    \E w \in Batches :
        /\ workers[w].pc = "done"
        /\ workers[w].bot_paths = <<BotA, BotB>>
        /\ PathsOf(Outcomes(w)) = <<BotA, BotB>>

\* ------------------------------------------------------------------------
\* C3
\* ------------------------------------------------------------------------
Processing(w) == workers[w].pc \in {"folder", "install"}

\* C3: no two workers are processing folders at the same time.
C3_AtMostOneWorker ==
    \A v, w \in Batches : (Processing(v) /\ Processing(w)) => v = w

\* ------------------------------------------------------------------------
\* C4
\* ------------------------------------------------------------------------
\* C4: every log line of a batch, every write to the progress bar and every
\* message box of a batch is executed by the interface thread.
C4_WidgetsWrittenByInterfaceThread ==
    /\ \A w \in Batches : \A i \in 1..Len(log[w]) : log[w][i].by = "interface"
    /\ progress.by = "interface"
    /\ \A d \in dialogs : d.batch # 0 => d.by = "interface"

\* ------------------------------------------------------------------------
\* C5
\* ------------------------------------------------------------------------
FullRun == <<"1", "2", "3", "4", "5a", "5b">>

\* C5: process_single_bot stops early exactly when its folder is missing or
\* no directory, and then changes nothing in the file system; otherwise it
\* attempts steps 2, 3, 4, 5a, 5b in this order, each once, whatever
\* warnings the earlier steps gave.
C5_StepsOfFolder ==
    \A w \in Batches :
        workers[w].kind = "run" =>
            /\ workers[w].pc = "install" => workers[w].steps = <<"1", "2", "3", "4">>
            /\ (workers[w].pc # "install" /\ Len(Outcomes(w)) > 0) =>
                   IF Outcomes(w)[Len(Outcomes(w))].tag = "error"
                   THEN workers[w].steps = <<"1">>
                   ELSE workers[w].steps = FullRun
C5_EarlyStopOnlyOnStep1 ==
    \A w \in Batches :
        (workers[w].pc = "folder" /\ workers[w].kind = "run" /\ workers'[w] # workers[w]) =>
            LET missing == ~(Current(w) \in DOMAIN fs /\ fs[Current(w)].kind = "dir") IN
            /\ missing <=> FailedStepBy(w)
            /\ missing => fs' = fs
            /\ ~missing <=> CleanStepBy(w)
C5_AbortsOnlyOnStep1 == []C5_StepsOfFolder /\ [][C5_EarlyStopOnlyOnStep1]_vars

\* A folder was processed to the end although its steps gave warnings, and
\* another folder of the same batch failed step 1.
C5_Witness ==
    \E w \in Batches :
        /\ workers[w].kind = "run"
        /\ Finished(w)
        /\ workers[w].steps = FullRun
        /\ workers[w].errors = 1
        /\ \E i \in 1..Len(log[w]) :
               log[w][i].tag = "warn" /\ log[w][i].msg = "no_logs_folder"

\* ------------------------------------------------------------------------
\* C6
\* ------------------------------------------------------------------------
UpdatesOf(bot) == bot \o <<nPlugins, nUpdates>>
\* The regular .jar files directly under the plugin source folder, except
\* the one named DarkBot.jar.
PluginJars(f, src) ==
    {p \in DOMAIN f :
        /\ Len(p) = Len(src) + 1
        /\ IsPrefix(src, p)
        /\ f[p].kind = "file"
        /\ EndsWith(Name(p), extJar)
        /\ Name(p) # nDarkBot}
ValidSource(f, src) == src \in DOMAIN f /\ f[src].kind = "dir"

\* C6 as stated: when the procedure on a folder ends, with a valid plugin
\* source folder, plugins/updates holds copies of exactly the .jar files
\* of the source except DarkBot.jar.
C6_ExactlyThePlugins ==
    \A w \in Batches :
        (InstallStepBy(w) /\ ValidSource(fs, workers[w].plugin_src)) =>
            LET upd == UpdatesOf(Current(w))
                jars == PluginJars(fs, workers[w].plugin_src)
            IN  /\ upd \in DOMAIN fs'
                /\ {Name(q) : q \in Children(fs', upd)} = {Name(p) : p \in jars}
                /\ \A p \in jars : fs'[upd \o <<Name(p)>>] = File(fs[p].data)
C6_Original == [][C6_ExactlyThePlugins]_vars

\* C6, amended: step 5b copies into plugins/updates every regular .jar
\* file directly under the plugin source folder, except DarkBot.jar, whose
\* copy does not fail, and writes nothing else there and removes nothing:
\* what else is in plugins/updates when the procedure ends is what step 4
\* could not remove.  A source file named DarkBot.jar is never copied.
C6_CopiesThePlugins ==
    \A w \in Batches :
        (InstallStepBy(w) /\ ValidSource(fs, workers[w].plugin_src)) =>
            LET upd == UpdatesOf(Current(w))
                jars == PluginJars(fs, workers[w].plugin_src)
                Writable(q) ==
                    /\ upd \in DOMAIN fs
                    /\ fs[upd].kind = "dir"
                    /\ q \in DOMAIN fs => (fs[q].kind = "file" /\ ~fs[q].locked)
            IN  /\ \A p \in jars :
                       Writable(upd \o <<Name(p)>>)
                           => /\ upd \o <<Name(p)>> \in DOMAIN fs'
                              /\ fs'[upd \o <<Name(p)>>] = File(fs[p].data)
                /\ \A q \in DOMAIN fs' :
                       (IsPrefix(upd, q) /\ q # upd) =>
                           \/ q \in DOMAIN fs /\ fs'[q] = fs[q]
                           \/ \E p \in jars :
                                  /\ q = upd \o <<Name(p)>>
                                  /\ fs'[q] = File(fs[p].data)
                /\ \A q \in DOMAIN fs : IsPrefix(upd, q) => q \in DOMAIN fs'
                /\ Untouched(upd \o <<nDarkBot>>)
C6_Amended == [][C6_CopiesThePlugins]_vars

\* The procedure has ended on a folder whose plugins/updates holds the
\* copies of a.jar and b.jar, next to a file step 4 could not remove.
C6_Witness ==
    \E w \in Batches :
        /\ workers[w].kind = "run"
        /\ Len(Outcomes(w)) > 0
        /\ Outcomes(w)[1].msg = "completed"
        /\ Outcomes(w)[1].path = BotA
        /\ UpdatesOf(BotA) \o <<nUJar>> \in DOMAIN fs
        /\ UpdatesOf(BotA) \o <<nAJar>> \in DOMAIN fs
        /\ UpdatesOf(BotA) \o <<nBJar>> \in DOMAIN fs
        /\ fs[UpdatesOf(BotA) \o <<nAJar>>].data = fs[PluginSrc \o <<nAJar>>].data
        /\ UpdatesOf(BotA) \o <<nDarkBot>> \notin DOMAIN fs

\* ------------------------------------------------------------------------
\* C7
\* ------------------------------------------------------------------------
\* The configured jar is an existing regular file named DarkBot.jar.
ValidJar(f, src) ==
    /\ src \in DOMAIN f
    /\ f[src].kind = "file"
    /\ src[Len(src)] = nDarkBot

\* C7: step 5a writes <bot>/DarkBot.jar only from a source that exists, is
\* a regular file and is named exactly DarkBot.jar; with any other source
\* the step is skipped with a warning, <bot>/DarkBot.jar stays as it is and
\* the folder completes without being counted as an error.
C7_JarCopiedOnlyFromDarkBotJar ==
    \A w \in Batches :
        InstallStepBy(w) =>
            LET src == workers[w].darkjar
                dest == Current(w) \o <<nDarkBot>>
            IN  /\ ~Untouched(dest) =>
                       /\ ValidJar(fs, src)
                       /\ fs'[dest] = File(fs[src].data)
                /\ ~ValidJar(fs, src) =>
                       /\ Untouched(dest)
                       /\ \E i \in 1..Len(NewLines(w)) :
                              /\ NewLines(w)[i].tag = "warn"
                              /\ NewLines(w)[i].msg = "invalid_darkbot_jar"
                       /\ workers'[w].errors = workers[w].errors
                       /\ NewLines(w)[Len(NewLines(w))].msg = "completed"
C7_Theorem == [][C7_JarCopiedOnlyFromDarkBotJar]_vars

\* A folder is completed with notdarkbot.jar configured: the step was
\* skipped with a warning and the old DarkBot.jar is still there.
C7_Witness ==
    \E w \in Batches :
        /\ workers[w].darkjar = WrongJarFile
        /\ WrongJarFile \in DOMAIN fs
        /\ Len(Outcomes(w)) > 0
        /\ Outcomes(w)[1].msg = "completed"
        /\ Outcomes(w)[1].path = BotA
        /\ Logged(log[w], "invalid_darkbot_jar", WrongJarFile)
        /\ workers[w].errors = 0
        /\ BotA \o <<nDarkBot>> \in DOMAIN fs
        /\ fs[BotA \o <<nDarkBot>>].data = "old"

\* ------------------------------------------------------------------------
\* C8
\* ------------------------------------------------------------------------
\* What the purge-logs step makes of the file system as it is now.
AfterPurgeLogs(bot) ==
    PurgeLogs([fs |-> fs, log |-> <<>>, steps |-> <<>>, by |-> "background"], bot).fs
\* A regular file with the extension .log, at any depth under <bot>/logs.
IsLogFileOf(bot, p) ==
    /\ Len(p) > Len(bot) + 1
    /\ SubSeq(p, 1, Len(bot) + 1) = bot \o <<nLogs>>
    /\ fs[p].kind = "file"
    /\ Len(p[Len(p)]) >= 4
    /\ SubSeq(p[Len(p)], Len(p[Len(p)]) - 3, Len(p[Len(p)])) = <<".", "l", "o", "g">>

\* C8: the purge-logs step removes only regular files named *.log under
\* <folder>/logs, at any depth; every other entry, under <folder>/plugins
\* and anywhere else, is left as it is.
C8_PurgeLogsFrame ==
    \A bot \in {BotA, BotB} :
        LET after == AfterPurgeLogs(bot) IN
        /\ DOMAIN after \subseteq DOMAIN fs
        /\ \A p \in DOMAIN fs :
               IF p \in DOMAIN after THEN after[p] = fs[p] ELSE IsLogFileOf(bot, p)
        /\ \A p \in DOMAIN fs :
               (IsLogFileOf(bot, p) /\ ~fs[p].locked) => p \notin DOMAIN after

\* The step has run on a folder: the .log files of logs are gone, at both
\* depths, and the other files of logs and the .log file of plugins stay.
C8_Witness ==
    /\ \E w \in Batches : Len(log[w]) > 0 /\ Logged(log[w], "removed_logs", BotA \o <<nLogs>>)
    /\ BotA \o <<nLogs, nXLog>> \notin DOMAIN fs
    /\ BotA \o <<nLogs, nSub, nYLog>> \notin DOMAIN fs
    /\ BotA \o <<nLogs, nTxt>> \in DOMAIN fs
    /\ BotA \o <<nLogs, nBak>> \in DOMAIN fs
    /\ BotA \o <<nLogs, nDirLog>> \in DOMAIN fs
    /\ BotA \o <<nPlugins, nPLog>> \in DOMAIN fs

\* ------------------------------------------------------------------------
\* C9
\* ------------------------------------------------------------------------
\* The .log files under <bot>/logs another program holds, and those free.
HeldLogs(bot) == {p \in DOMAIN fs : IsLogFileOf(bot, p) /\ fs[p].locked}
FreeLogs(bot) == {p \in DOMAIN fs : IsLogFileOf(bot, p) /\ ~fs[p].locked}

\* C9: a .log file that cannot be removed gives a warning; the other .log
\* files of the folder are removed all the same, the procedure goes on to
\* the next steps on the folder without counting an error, ...
C9_HeldLogIsOnlyAWarning ==
    \A w \in Batches :
        (CleanStepBy(w) /\ HeldLogs(Current(w)) # {}) =>
            /\ \A p \in HeldLogs(Current(w)) :
                   /\ p \in DOMAIN fs'
                   /\ \E i \in 1..Len(NewLines(w)) :
                          /\ NewLines(w)[i].tag = "warn"
                          /\ NewLines(w)[i].msg = "did_not_remove_log"
                          /\ NewLines(w)[i].path = p
            /\ \A p \in FreeLogs(Current(w)) : p \notin DOMAIN fs'
            /\ workers'[w].steps = <<"1", "2", "3", "4">>
            /\ workers'[w].errors = workers[w].errors
\* ... and the batch goes on to the folders after it.
C9_BatchGoesOn ==
    \A w \in Batches :
        (Finished(w) /\ \E i \in 1..Len(log[w]) : log[w][i].msg = "did_not_remove_log") =>
            /\ Len(Outcomes(w)) = Total(w)
            /\ \A i \in 1..Len(log[w]) :
                   log[w][i].msg = "did_not_remove_log" =>
                       \E k \in 1..Len(Outcomes(w)) :
                           /\ IsPrefix(Outcomes(w)[k].path, log[w][i].path)
                           /\ Outcomes(w)[k].tag = "success"
C9_Theorem == [][C9_HeldLogIsOnlyAWarning]_vars /\ []C9_BatchGoesOn

\* A batch of two folders is over; x.log of the first could not be removed
\* and is still there, y.log is gone, and the second folder was completed.
C9_Witness ==
    \E w \in Batches :
        /\ workers[w].pc = "done"
        /\ workers[w].kind = "run"
        /\ Logged(log[w], "did_not_remove_log", BotA \o <<nLogs, nXLog>>)
        /\ BotA \o <<nLogs, nXLog>> \in DOMAIN fs
        /\ BotA \o <<nLogs, nSub, nYLog>> \notin DOMAIN fs
        /\ Len(Outcomes(w)) = 2
        /\ Outcomes(w)[1].msg = "completed"
        /\ Outcomes(w)[2].msg = "completed"
        /\ Outcomes(w)[2].path = BotB

\* ------------------------------------------------------------------------
\* C10
\* ------------------------------------------------------------------------
\* C10 as stated: after step 4 a plugins/updates that did not exist exists
\* and is empty, and one that existed is still there, without any child.
C10_UpdatesEmptyAfterStep4 ==
    \A w \in Batches :
        CleanStepBy(w) =>
            LET upd == UpdatesOf(Current(w)) IN
            /\ upd \notin DOMAIN fs =>
                   /\ upd \in DOMAIN fs'
                   /\ fs'[upd].kind = "dir"
                   /\ Descendants(fs', upd) = {}
            /\ (upd \in DOMAIN fs /\ fs[upd].kind = "dir") =>
                   /\ upd \in DOMAIN fs'
                   /\ fs'[upd].kind = "dir"
                   /\ Descendants(fs', upd) = {}
C10_Original == [][C10_UpdatesEmptyAfterStep4]_vars

\* C10, amended: a plugins/updates that does not exist before step 4 is
\* created with its missing parents, and exists and is empty after the
\* step, unless the creation fails (plugins is a regular file), which is
\* logged as a warning and leaves it missing; in a plugins/updates that
\* exists, step 4 removes every direct child whose removal succeeds (files
\* unlinked, directories removed with what they hold), leaves each child it
\* cannot remove with a warning, and leaves the folder itself in place.
C10_UpdatesResetAfterStep4 ==
    \A w \in Batches :
        CleanStepBy(w) =>
            LET upd == UpdatesOf(Current(w))
                plugins == Current(w) \o <<nPlugins>>
                Kids == {q \in DOMAIN fs : Len(q) = Len(upd) + 1 /\ IsPrefix(upd, q)}
                Below(q) == {r \in DOMAIN fs : IsPrefix(q, r)}
                Removable(q) == \A r \in Below(q) : ~fs[r].locked
            IN  /\ upd \notin DOMAIN fs =>
                       IF plugins \in DOMAIN fs /\ fs[plugins].kind # "dir"
                       THEN /\ upd \notin DOMAIN fs'
                            /\ Logged(NewLines(w), "failed_to_create_updates", upd)
                       ELSE /\ upd \in DOMAIN fs'
                            /\ fs'[upd].kind = "dir"
                            /\ Descendants(fs', upd) = {}
                            /\ Logged(NewLines(w), "created_updates", upd)
                /\ (upd \in DOMAIN fs /\ fs[upd].kind = "dir") =>
                       /\ upd \in DOMAIN fs'
                       /\ fs'[upd] = fs[upd]
                       /\ \A q \in Kids :
                              IF Removable(q)
                              THEN \A r \in Below(q) : r \notin DOMAIN fs'
                              ELSE /\ \A r \in Below(q) : r \in DOMAIN fs' /\ fs'[r] = fs[r]
                                   /\ Logged(NewLines(w), "did_not_remove_update", q)
                       /\ Descendants(fs', upd) \subseteq Descendants(fs, upd)
C10_Amended == [][C10_UpdatesResetAfterStep4]_vars

\* Step 4 has just run on two folders: it created plugins/updates, empty,
\* in the one that had none, and in the other it left the file it could
\* not remove and removed the rest.
C10_Witness ==
    /\ \E w \in Batches :
           /\ workers[w].pc = "install"
           /\ Current(w) = BotB
           /\ Logged(log[w], "created_updates", UpdatesOf(BotB))
           /\ UpdatesOf(BotB) \in DOMAIN fs
           /\ Descendants(fs, UpdatesOf(BotB)) = {}
           /\ Logged(log[w], "did_not_remove_update", UpdatesOf(BotA) \o <<nUJar>>)
    /\ Children(fs, UpdatesOf(BotA))
           = {UpdatesOf(BotA) \o <<nUJar>>, UpdatesOf(BotA) \o <<nAJar>>,
              UpdatesOf(BotA) \o <<nBJar>>}

\* ------------------------------------------------------------------------
\* process_single_bot called again on the folder it has just processed
\* ------------------------------------------------------------------------
\* The calls of process_single_bot made in a row.
MaxRuns == 2

\* The folder layouts and configurations the calls are made with.
HeldChoices(b) ==
    SUBSET {b \o <<nLogs, nXLog>>, b \o <<nPlugins, nUpdates, nUJar>>, b \o <<nDarkBot>>}
BotLayouts(b) ==
    {FullBot(b, h) : h \in HeldChoices(b)}
        \cup {SmallBot(b), BareBot(b), PluginsFileBot(b), UpdatesFileBot(b)}
Configs == {GoodConfig, WrongJarConfig, UnsetConfig}

\* The whole runs of the procedure that worker w has made.
RunsDone(w) == Len(workers[w].steps) \div Len(FullRun)

InitTwice ==
    /\ \E a \in BotLayouts(BotA), b \in {SmallBot(BotB), BareBot(BotB)}, k \in Configs :
           /\ fs = a @@ b @@ Surroundings
           /\ cfg = k
    /\ bots_root_var = cfg.bots_root
    /\ listbox = ListedBots(fs, bots_root_var)
    /\ workers = [b \in Batches |-> IdleWorker]
    /\ log = [b \in Batches |-> <<>>]
    /\ notice = RefreshLine(fs, bots_root_var)
    /\ progress = [value |-> 0, maximum |-> 100, by |-> "interface"]
    /\ dialogs = {}
    /\ envLeft = 0

\* process_single_bot(bot_path, darkjar_src, plugin_src_folder) from its
\* first line to its last, on a folder that exists, with the sources of the
\* configuration; the caller calls it on one folder only.
process_single_bot(bot) ==
    LET wk == workers[1]
        c == [fs |-> fs, log |-> log[1], steps |-> wk.steps, by |-> "background"]
    IN  /\ FolderValid(fs, bot)
        /\ RunsDone(1) < MaxRuns
        /\ wk.bot_paths \in {<<>>, <<bot>>}
        /\ \E r \in {InstallSteps(CleanSteps(Attempt(c, "1"), bot), bot,
                                  cfg.darkbot_jar_path, cfg.plugin_updates_folder)} :
               /\ fs' = r.fs
               /\ log' = [log EXCEPT ![1] = r.log]
               /\ workers' = [workers EXCEPT ![1] =
                                 [wk EXCEPT !.kind = "run", !.bot_paths = <<bot>>, !.idx = 1,
                                            !.darkjar = cfg.darkbot_jar_path,
                                            !.plugin_src = cfg.plugin_updates_folder,
                                            !.steps = r.steps]]
        /\ UNCHANGED <<cfg, bots_root_var, listbox, notice, progress, dialogs, envLeft>>

NextTwice == \E bot \in {BotA, BotB} : process_single_bot(bot)

SpecTwice == InitTwice /\ [][NextTwice]_vars

\* ------------------------------------------------------------------------
\* C11
\* ------------------------------------------------------------------------
\* The count a step reports on its line (0 when it wrote no such line).
CountOn(lines, msg) ==
    IF \E i \in 1..Len(lines) : lines[i].msg = msg
    THEN lines[CHOOSE i \in 1..Len(lines) : lines[i].msg = msg].n
    ELSE 0
\* A run that follows a run on the same folder.
RunAgain ==
    /\ RunsDone(1) >= 1
    /\ workers'[1].steps # workers[1].steps

\* C11 as stated: in a run that follows a run on the same folder, steps 2,
\* 3 and 4 delete nothing, and the file system after it is the file system
\* before it.
C11_SecondRunDeletesNothing ==
    RunAgain =>
        /\ fs' = fs
        /\ CountOn(NewLines(1), "removed_logs") = 0
        /\ CountOn(NewLines(1), "removed_old") = 0
        /\ CountOn(NewLines(1), "removed_updates") = 0
C11_Original == [][C11_SecondRunDeletesNothing]_vars

\* C11, amended: in a run that follows a run on the same folder with
\* unchanged sources, steps 2 and 3 delete nothing, step 4 deletes from
\* plugins/updates the plugin copies the run before has put there and
\* nothing else, step 5 puts the same copies back, and the file system
\* after the run is the file system before it.
C11_SecondRunRestoresState ==
    RunAgain =>
        LET bot == workers[1].bot_paths[1]
            upd == bot \o <<nPlugins, nUpdates>>
            jars == {p \in Children(fs, workers[1].plugin_src) :
                        /\ fs[p].kind = "file"
                        /\ EndsWith(Name(p), extJar)
                        /\ Name(p) # nDarkBot}
            copies == {q \in Children(fs, upd) :
                          /\ ~fs[q].locked
                          /\ \E p \in jars : Name(p) = Name(q) /\ fs[q] = File(fs[p].data)}
        IN  /\ fs' = fs
            /\ CountOn(NewLines(1), "removed_logs") = 0
            /\ CountOn(NewLines(1), "removed_old") = 0
            /\ CountOn(NewLines(1), "removed_updates") = Cardinality(copies)
            /\ CountOn(NewLines(1), "copied_plugins") = Cardinality(copies)
            /\ \A q \in Children(fs, upd) :
                   q \notin copies => Logged(NewLines(1), "did_not_remove_update", q)
C11_Amended == [][C11_SecondRunRestoresState]_vars

\* The procedure has run twice on the first folder, with a.jar and b.jar in
\* the source: the second run removed the two copies and put them back.
C11_Witness ==
    /\ RunsDone(1) = 2
    /\ workers[1].bot_paths = <<BotA>>
    /\ Len(log[1]) > 0
    /\ log[1][Len(log[1])].msg = "copied_plugins"
    /\ log[1][Len(log[1])].n = 2
    /\ \E i \in 1..Len(log[1]) : log[1][i].msg = "removed_updates" /\ log[1][i].n = 2
    /\ fs[BotA \o <<nPlugins, nUpdates, nAJar>>] = File("plugin a")
    /\ fs[BotA \o <<nPlugins, nUpdates, nBJar>>] = File("plugin b")

\* ------------------------------------------------------------------------
\* C12
\* ------------------------------------------------------------------------
\* One pass of the loop of clear_old_logs_worker, as a transition.
ClearStepBy(w) ==
    /\ workers[w].pc = "folder"
    /\ workers[w].kind = "clear"
    /\ workers'[w] # workers[w]
\* A regular .jar file directly under <bot>/plugins/old.
IsOldJarOf(bot, p) ==
    /\ Len(p) = Len(bot) + 3
    /\ SubSeq(p, 1, Len(bot) + 2) = bot \o <<nPlugins, nOld>>
    /\ fs[p].kind = "file"
    /\ EndsWith(Name(p), extJar)

\* C12: the log-only procedure attempts the check and the two purges only;
\* it removes nothing but .log files under logs and .jar files of
\* plugins/old of its folder, changes no entry that stays, creates no entry
\* (no directory, no copy), and so leaves plugins/updates and DarkBot.jar of
\* every folder as they are.
C12_ClearTouchesLogsAndOldOnly ==
    \A w \in Batches :
        ClearStepBy(w) =>
            /\ workers'[w].steps \in {<<"1">>, <<"1", "2", "3">>}
            /\ DOMAIN fs' \subseteq DOMAIN fs
            /\ \A p \in DOMAIN fs' : fs'[p] = fs[p]
            /\ \A p \in DOMAIN fs \ DOMAIN fs' :
                   IsLogFileOf(Current(w), p) \/ IsOldJarOf(Current(w), p)
            /\ \A bot \in {BotA, BotB} :
                   /\ Untouched(bot \o <<nDarkBot>>)
                   /\ Untouched(UpdatesOf(bot))
                   /\ \A p \in DOMAIN fs \cup DOMAIN fs' :
                          IsPrefix(UpdatesOf(bot), p) => Untouched(p)
C12_Theorem == [][C12_ClearTouchesLogsAndOldOnly]_vars

\* A log-only batch has cleared the first folder: x.log and o.jar are gone,
\* the staged update and the old DarkBot.jar are still there.
C12_Witness ==
    \E w \in Batches :
        /\ workers[w].kind = "clear"
        /\ Logged(log[w], "cleared", BotA)
        /\ BotA \o <<nLogs, nXLog>> \notin DOMAIN fs
        /\ BotA \o <<nPlugins, nOld, nOJar>> \notin DOMAIN fs
        /\ BotA \o <<nPlugins, nUpdates, nUJar>> \in DOMAIN fs
        /\ BotA \o <<nPlugins, nUpdates, nSub, nTxt>> \in DOMAIN fs
        /\ BotA \o <<nDarkBot>> \in DOMAIN fs
        /\ fs[BotA \o <<nDarkBot>>].data = "old"

\* ------------------------------------------------------------------------
\* C13
\* ------------------------------------------------------------------------
\* The worker is between its start and its summary.
Running(w) == workers[w].pc \in {"folder", "install", "summary"}

\* C13: while a batch over n folders runs, the progress bar has maximum n
\* and shows the number of folders finished so far, succeeded or failed: 0
\* at the start, i after the i-th folder, n when the summary is emitted ...
C13_ProgressShowsFinishedFolders ==
    \A w \in Batches :
        Running(w) =>
            /\ progress.maximum = Total(w)
            /\ progress.value = Len(Outcomes(w))
\* ... and it never decreases during the run.
C13_ProgressNeverDecreases ==
    \A w \in Batches :
        (Running(w) /\ Running(w)') => progress'.value >= progress.value
C13_ProgressTracksBatch ==
    []C13_ProgressShowsFinishedFolders /\ [][C13_ProgressNeverDecreases]_vars

\* ------------------------------------------------------------------------
\* C14
\* ------------------------------------------------------------------------
\* The lines of batch w logged with the error tag.
ErrorLines(w) == SelectSeq(log[w], LAMBDA e : e.tag = "error")
\* The folders of batch w whose procedure has failed.
FailedFolders(w) == {i \in 1..Len(Outcomes(w)) : Outcomes(w)[i].tag = "error"}

\* C14: the tally of a batch is the number of its folders whose procedure
\* failed, each failure is logged as one error message, and at the end of
\* the batch the success summary is written if and only if the tally is 0.
C14_TallyCountsFailedFolders ==
    \A w \in Batches :
        (Started(w) /\ workers[w].pc # "start") =>
            /\ workers[w].errors = Cardinality(FailedFolders(w))
            /\ Len(ErrorLines(w)) = workers[w].errors
            /\ \A i \in 1..Len(ErrorLines(w)) : IsOutcome(ErrorLines(w)[i])
            /\ workers[w].pc = "done" =>
                   /\ log[w][Len(log[w])].msg \in {"summary_ok", "summary_errors"}
                   /\ log[w][Len(log[w])].msg = "summary_ok" <=> workers[w].errors = 0
                   /\ log[w][Len(log[w])].tag = "success" <=> workers[w].errors = 0
\* The tally goes up by one in the pass of a folder that is missing or no
\* directory, and in no other step: warnings of the steps and skipped
\* sub-steps leave it as it is.
C14_OnlyFailuresCount ==
    \A w \in Batches :
        (Started(w) /\ workers[w].pc # "start" /\ workers'[w] # workers[w]) =>
            IF workers[w].pc = "folder" /\ ~FolderValid(fs, Current(w))
            THEN /\ workers'[w].errors = workers[w].errors + 1
                 /\ Len(SelectSeq(NewLines(w), LAMBDA e : e.tag = "error")) = 1
            ELSE /\ workers'[w].errors = workers[w].errors
                 /\ Len(SelectSeq(NewLines(w), LAMBDA e : e.tag = "error")) = 0
C14_Theorem == []C14_TallyCountsFailedFolders /\ [][C14_OnlyFailuresCount]_vars

\* A batch of two folders has ended with a tally of 1: one folder failed,
\* the other was completed with warnings, and the summary reports errors.
C14_Witness ==
    \E w \in Batches :
        /\ workers[w].pc = "done"
        /\ Total(w) = 2
        /\ workers[w].errors = 1
        /\ log[w][Len(log[w])].msg = "summary_errors"
        /\ log[w][Len(log[w])].n = 1
        /\ \E i \in 1..Len(log[w]) : log[w][i].tag = "warn" /\ log[w][i].msg # "summary_errors"
        /\ \E i \in 1..Len(Outcomes(w)) : Outcomes(w)[i].tag = "success"

\* ------------------------------------------------------------------------
\* The list of bot folders: the root is typed or browsed, folders come and
\* go, the list is refreshed
\* ------------------------------------------------------------------------
MissingRoot == <<nRoot, nGone>>
FileRoot == <<nRoot, nNote>>
\* The names the directories under the root may have.
DirNames == {nBotA, nBotB, nSub, nDarkBot, nLogs}
\* The texts the root entry may hold.
RootTexts == {<<>>, BotsRoot, MissingRoot, FileRoot, BotA}

\* A root with the directories named in D; the first bot folder, when it is
\* among them, has folders of its own.
RootWith(D) ==
    LET top == [p \in {<<nRoot, d>> : d \in D} |-> Dir]
    IN  IF nBotA \in D THEN SmallBot(BotA) @@ top ELSE top

InitRefresh ==
    /\ \E D \in SUBSET DirNames : fs = RootWith(D) @@ Surroundings
    /\ \E root \in {<<>>, BotsRoot, MissingRoot} :
           cfg = [bots_root |-> root, darkbot_jar_path |-> JarFile,
                  plugin_updates_folder |-> PluginSrc]
    /\ bots_root_var = cfg.bots_root
    /\ listbox = ListedBots(fs, bots_root_var)
    /\ workers = [b \in Batches |-> IdleWorker]
    /\ log = [b \in Batches |-> <<>>]
    /\ notice = RefreshLine(fs, bots_root_var)
    /\ progress = [value |-> 0, maximum |-> 100, by |-> "interface"]
    /\ dialogs = {}
    /\ envLeft = MaxEnv

\* The user types into the entry bound to bots_root_var.
bots_root_entry(text) ==
    /\ bots_root_var' = text
    /\ UNCHANGED <<fs, cfg, listbox, workers, log, notice, progress, dialogs, envLeft>>

\* browse_bots_root: the directory chosen in the dialog becomes the root,
\* is saved and the list is refreshed.
browse_bots_root(p) ==
    /\ p # <<>>
    /\ IsDir(fs, p)
    /\ bots_root_var' = p
    /\ cfg' = [cfg EXCEPT !.bots_root = p]
    /\ listbox' = ListedBots(fs, p)
    /\ notice' = RefreshLine(fs, p)
    /\ UNCHANGED <<fs, workers, log, progress, dialogs, envLeft>>

NextRefresh ==
    \/ \E text \in RootTexts : bots_root_entry(text)
    \/ \E p \in RootTexts : browse_bots_root(p)
    \/ refresh_bot_list
    \/ FolderRemoved

SpecRefresh == InitRefresh /\ [][NextRefresh]_vars

\* ------------------------------------------------------------------------
\* C15
\* ------------------------------------------------------------------------
\* A step in which refresh_bot_list has run.
Refreshed ==
    /\ fs' = fs
    /\ bots_root_var' = bots_root_var \/ cfg' # cfg
\* The immediate subdirectories of a root.
Subdirectories(f, root) ==
    {p \in DOMAIN f : Len(p) = Len(root) + 1 /\ IsPrefix(root, p) /\ f[p].kind = "dir"}

\* C15: after refresh_bot_list the list holds exactly the immediate
\* subdirectories of the root, each once, ordered by lower-cased name; with
\* an empty or missing root the list is empty, a warning is logged and no
\* exception is raised.
C15_ListsSubdirectoriesInOrder ==
    Refreshed =>
        LET root == bots_root_var' IN
        /\ {listbox'[i] : i \in 1..Len(listbox')} = (IF root = <<>> THEN {} ELSE Subdirectories(fs, root))
        /\ \A i, j \in 1..Len(listbox') : i # j => listbox'[i] # listbox'[j]
        /\ \A i, j \in 1..Len(listbox') :
               i < j => ~StrLess(LowerName(Name(listbox'[j])), LowerName(Name(listbox'[i])))
        /\ (root = <<>> \/ root \notin DOMAIN fs) =>
               /\ listbox' = <<>>
               /\ notice'.tag = "warn"
               /\ notice'.msg = "no_bot_root"
C15_Theorem == [][C15_ListsSubdirectoriesInOrder]_vars

\* The list was refreshed after the folder a was removed: it holds the four
\* directories left, B before d before DarkBot.jar before logs, and not the
\* file c.
C15_Witness ==
    /\ envLeft = 0
    /\ <<nRoot, nNote>> \in DOMAIN fs
    /\ listbox = << <<nRoot, nBotB>>, <<nRoot, nSub>>, <<nRoot, nDarkBot>>, <<nRoot, nLogs>> >>
    /\ notice.msg = "loaded_bots"
    /\ notice.n = 4

\* ------------------------------------------------------------------------
\* The settings dialog saved while batches run.  _run_worker reads the two
\* source paths in two statements, and the dialog may save between them.
\* ------------------------------------------------------------------------
\* The values the settings dialog may hold when it is saved.
JarTexts == {JarFile, WrongJarFile}
SourceTexts == {PluginSrc, MissingSrc}

InitSettings ==
    /\ fs = FullBot(BotA, {}) @@ SmallBot(BotB) @@ Surroundings
    /\ cfg = GoodConfig
    /\ bots_root_var = cfg.bots_root
    /\ listbox = ListedBots(fs, bots_root_var)
    /\ workers = [b \in Batches |-> IdleWorker]
    /\ log = [b \in Batches |-> <<>>]
    /\ notice = RefreshLine(fs, bots_root_var)
    /\ progress = [value |-> 0, maximum |-> 100, by |-> "interface"]
    /\ dialogs = {}
    /\ envLeft = 0

\* open_settings.save_and_close, pressed while a worker is between its
\* start and its last folder: the three values are stored, the list is
\* refreshed and the saving is logged.
save_and_close(v1, v2, v3) ==
    /\ \E w \in Batches : workers[w].pc \in {"start", "read", "folder", "install"}
    /\ cfg' = [bots_root |-> v1, darkbot_jar_path |-> v2, plugin_updates_folder |-> v3]
    /\ bots_root_var' = v1
    /\ listbox' = ListedBots(fs, v1)
    /\ notice' = IF RefreshLine(fs, v1).tag = "raised"
                 THEN RefreshLine(fs, v1)
                 ELSE [by |-> "interface", tag |-> "info", msg |-> "settings_saved",
                       idx |-> 0, n |-> 0, path |-> v1]
    /\ UNCHANGED <<fs, workers, log, progress, dialogs, envLeft>>

\* _run_worker up to the read of darkbot_jar_path.
WorkerBegin(w) ==
    LET wk == workers[w] IN
    /\ wk.pc = "start"
    /\ wk.kind = "run"
    /\ progress' = [value |-> 0, maximum |-> Len(wk.bot_paths), by |-> "background"]
    /\ log' = [log EXCEPT ![w] =
                  LogLine(Ctx(w), "info", "operation_start", 0, Len(wk.bot_paths), <<>>).log]
    /\ workers' = [workers EXCEPT ![w] =
                      [wk EXCEPT !.pc = "read", !.darkjar = cfg.darkbot_jar_path]]
    /\ UNCHANGED <<fs, cfg, bots_root_var, listbox, notice, dialogs, envLeft>>

\* _run_worker from the read of plugin_updates_folder to the loop.
WorkerReadSource(w) ==
    LET wk == workers[w] IN
    /\ wk.pc = "read"
    /\ workers' = [workers EXCEPT ![w] =
                      [wk EXCEPT !.pc = "folder", !.idx = 1, !.errors = 0,
                                 !.plugin_src = cfg.plugin_updates_folder]]
    /\ UNCHANGED <<fs, cfg, bots_root_var, listbox, log, notice, progress, dialogs, envLeft>>

NextSettings ==
    \/ \E sel \in SUBSET (1..Len(listbox)) : run_on_selected(sel)
    \/ \E v2 \in JarTexts, v3 \in SourceTexts : save_and_close(BotsRoot, v2, v3)
    \/ \E w \in Batches : WorkerBegin(w)
    \/ \E w \in Batches : WorkerReadSource(w)
    \/ \E w \in Batches : WorkerClean(w)
    \/ \E w \in Batches : WorkerInstall(w)
    \/ \E w \in Batches : WorkerSummary(w)

SpecSettings == InitSettings /\ [][NextSettings]_vars

\* ------------------------------------------------------------------------
\* C16
\* ------------------------------------------------------------------------
\* The worker has read its two source paths.
HasRead(w) == workers[w].pc \in {"folder", "install", "summary", "done"}

\* C16: the two source paths of a batch do not change once its worker has
\* read them, whatever the settings dialog saves meanwhile, ...
C16_PathsKeptForTheBatch ==
    \A w \in Batches :
        HasRead(w) =>
            /\ workers'[w].darkjar = workers[w].darkjar
            /\ workers'[w].plugin_src = workers[w].plugin_src
\* ... and step 5 of every folder of the batch works with these two paths:
\* what it writes to DarkBot.jar is the content of the file at the jar path
\* read at the start, what it copies into plugins/updates are the jars of
\* the source folder read at the start (nothing, with a warning, when that
\* is no folder), and its warnings name these paths.
C16_EveryFolderUsesThePathsRead ==
    \A w \in Batches :
        InstallStepBy(w) =>
            LET jar == workers[w].darkjar
                src == workers[w].plugin_src
                dest == Current(w) \o <<nDarkBot>>
            IN  /\ IF ValidJar(fs, jar)
                   THEN /\ fs'[dest] = File(fs[jar].data)
                        /\ Logged(NewLines(w), "copied_darkbot", dest)
                   ELSE /\ Untouched(dest)
                        /\ Logged(NewLines(w), "invalid_darkbot_jar", jar)
                /\ IF ValidSource(fs, src)
                   THEN \A p \in PluginJars(fs, src) :
                            fs'[UpdatesOf(Current(w)) \o <<Name(p)>>] = File(fs[p].data)
                   ELSE /\ Logged(NewLines(w), "invalid_plugin_folder", src)
                        /\ \A p \in DOMAIN fs \cup DOMAIN fs' :
                               IsPrefix(UpdatesOf(Current(w)), p) => Untouched(p)
C16_Theorem ==
    [][C16_PathsKeptForTheBatch]_vars /\ [][C16_EveryFolderUsesThePathsRead]_vars

\* The only batch started has processed both folders with the jar and the
\* plugin source read at its start, although the settings were saved with
\* another jar and another source before its last folder was installed.
C16_Witness ==
    /\ workers[1].pc = "done"
    /\ workers[2].pc = "idle"
    /\ Total(1) = 2
    /\ workers[1].darkjar = JarFile
    /\ workers[1].plugin_src = PluginSrc
    /\ cfg.darkbot_jar_path = WrongJarFile
    /\ cfg.plugin_updates_folder = MissingSrc
    /\ fs[BotA \o <<nDarkBot>>] = File("new")
    /\ fs[BotB \o <<nDarkBot>>] = File("new")
    /\ fs[UpdatesOf(BotB) \o <<nAJar>>] = File("plugin a")

\* ------------------------------------------------------------------------
\* C17
\* ------------------------------------------------------------------------
\* The message boxes that tell the user a batch is done.
IsCompletionNotice(d) == d.batch # 0 /\ d.title \in {"done", "clearing_completed"}

\* C17: a message box telling that a batch is done is shown only when the
\* worker of the batch has been through all its folders ...
C17_NoticeAfterLastFolder ==
    \A d \in dialogs : IsCompletionNotice(d) => d.pc = "summary"
\* ... and a button pressed with nothing selected or nothing listed starts
\* no worker and changes nothing in the file system.
C17_NothingToDoStartsNothing ==
    (\E d \in dialogs' \ dialogs : d.title \in {"selection_none", "selection_empty"})
        => (workers' = workers /\ fs' = fs)
C17_NotifiedWhenDone ==
    []C17_NoticeAfterLastFolder /\ [][C17_NothingToDoStartsNothing]_vars

====
